---------------------------- MODULE Spec2Model ----------------------------
(***************************************************************************)
(* A model of src/src/dev.js: the Express handlers of the category/animal  *)
(* catalogue over two Mongoose collections, Category and Animal.           *)
(*                                                                         *)
(* The store executes one operation at a time; a handler is suspended at   *)
(* each `await`, so a handler with several store operations is several     *)
(* steps (named <handler>_<operation>), and the steps of other requests    *)
(* may run between them.  A request that is suspended is held in `pending`.*)
(* `last` is the HTTP exchange the latest step belongs to: its handler,    *)
(* its request, the status and body of the response (status 0 while the    *)
(* handler is suspended) and the operations that reached the store.  It is *)
(* observed (Observe) before the next step is taken, so that in every      *)
(* state `last` describes the step that led to the store as it is; the     *)
(* handlers never read it.  One handler at a time is suspended (Requests), *)
(* while any number of single-operation requests run between its steps.    *)
(*                                                                         *)
(* Optional values (undefined/null in the source) are sequences of length  *)
(* 0 or 1: <<>> is undefined/null, <<v>> is the value v.  Identifiers are  *)
(* sequences of characters.                                                *)
(*                                                                         *)
(* Not modelled: the createdAt/updatedAt timestamps of the schemas, CORS,  *)
(* the files on disk, and failures of the connection to the store.         *)
(***************************************************************************)
EXTENDS Integers, Sequences, FiniteSets, TLC

VARIABLES Category, Animal, nextId, pending, last

vars == <<Category, Animal, nextId, pending, last>>

(* Bound of the model: the identifiers the driver generates. *)
MaxIds == 3

(* The requests that can be suspended at the same time. *)
Requests == {"r1"}

-----------------------------------------------------------------------------
(* Identifiers *)

HexDigits ==
  <<"0", "1", "2", "3", "4", "5", "6", "7", "8", "9", "a", "b", "c", "d", "e", "f">>

HexChars == {HexDigits[i] : i \in 1..16}

(* mongoose.Types.ObjectId.isValid on a string: 24 hexadecimal characters. *)
(* (The 12-character form some driver versions accept is not among the     *)
(* inputs of the model.)                                                   *)
isValid(id) ==
  /\ Len(id) = 24
  /\ \A i \in 1..24 : id[i] \in HexChars

(* The n-th identifier the driver generates: 24 hexadecimal characters,    *)
(* distinct for distinct n (the counter part of an ObjectId).              *)
ObjectId(n) ==
  [i \in 1..24 |->
     IF i = 24 THEN HexDigits[(n % 16) + 1]
     ELSE IF i = 23 THEN HexDigits[((n \div 16) % 16) + 1]
     ELSE "0"]

(* Malformed identifiers: wrong length, wrong character set. *)
MalformedIds == {<<"0", "1">>, [i \in 1..24 |-> IF i = 1 THEN "g" ELSE "0"]}

(* The identifiers a request's path can carry: every identifier the store  *)
(* can have generated, one it never generates, and the malformed ones.     *)
PathIds == {ObjectId(n) : n \in 0..MaxIds} \cup MalformedIds

-----------------------------------------------------------------------------
(* Request inputs *)

Truthy(v) == v # <<>> /\ v[1] # ""

CategoryNames == {"Reptiles", "Birds"}

(* req.body.name: absent, empty, or a text. *)
NameInputs == {<<>>, <<"">>} \cup {<<n>> : n \in CategoryNames}

AnimalNameInputs == {<<>>, <<"">>, <<"Iguana">>}

fileSize == 5 * 1024 * 1024

(* The file part of a multipart request: none, or one file (of the largest *)
(* size accepted, one byte more, or under another field name).             *)
Uploads ==
  {<<>>} \cup
  {<<[fieldname |-> "image", originalname |-> "iguana.png", size |-> s]>> :
      s \in {fileSize, fileSize + 1}} \cup
  {<<[fieldname |-> "photo", originalname |-> "iguana.png", size |-> fileSize]>>}

(* Date.now() *)
Times == {1}

NoReq == [id |-> <<>>, name |-> <<>>, upload |-> <<>>, file |-> <<>>]

-----------------------------------------------------------------------------
(* The store *)

(* Model.findById / findOne({_id}): the document, or null. *)
findById(coll, id) ==
  IF \E d \in coll : d._id = id
  THEN <<CHOOSE d \in coll : d._id = id>>
  ELSE <<>>

(* Animal.find({category: id}) *)
findByCategory(id) == {a \in Animal : a.category = id}

(* populate that leaves the references as they are stored. *)
populate_Unresolved(docs) == docs

(* .populate('category'): the reference replaced by the category document, *)
(* or by null when no category has that _id.                               *)
populate(docs) ==
  {[a EXCEPT !.category = findById(Category, a.category)] : a \in docs}

Idle == [handler |-> "idle"]

(* A handler suspended at an await: the step it resumes with, its request  *)
(* and its local variables.                                                *)
Suspended(handler, pc, req, category, animals, ops) ==
  [handler |-> handler, pc |-> pc, req |-> req, category |-> category,
   animals |-> animals, ops |-> ops]

IsAt(r, handler, pc) ==
  /\ pending[r] # Idle
  /\ pending[r].handler = handler
  /\ pending[r].pc = pc

Response(handler, req, status, body, ops) ==
  [handler |-> handler, req |-> req, status |-> status, body |-> body, ops |-> ops]

Message(m) == [message |-> m]

NoExchange == Response("none", NoReq, 0, <<>>, <<>>)

(* A handler step is observed before the next one is taken. *)
Ready == last = NoExchange

Init ==
  /\ Category = {}
  /\ Animal = {}
  /\ nextId = 0
  /\ pending = [r \in Requests |-> Idle]
  /\ last = NoExchange

-----------------------------------------------------------------------------
(* Category handlers *)

(* getCategories without the empty-result check. *)
getCategories_EmptyList ==
  /\ Ready
  /\ last' = Response("getCategories", NoReq, 200, Category, <<"Category.find">>)
  /\ UNCHANGED <<Category, Animal, nextId, pending>>

getCategories ==
  /\ Ready
  /\ LET categories == Category
     IN /\ last' = IF categories = {}
                   THEN Response("getCategories", NoReq, 404,
                                 Message("No categories found"), <<"Category.find">>)
                   ELSE Response("getCategories", NoReq, 200, categories,
                                 <<"Category.find">>)
        /\ UNCHANGED <<Category, Animal, nextId, pending>>

(* addCategory testing `name === undefined` instead of `!name`. *)
addCategory_EmptyNameAccepted(name) ==
  /\ Ready
  /\ LET req == [NoReq EXCEPT !.name = name]
     IN IF name = <<>>
        THEN /\ last' = Response("addCategory", req, 400,
                                 Message("Category name is required"), <<>>)
             /\ UNCHANGED <<Category, Animal, nextId, pending>>
        ELSE LET newCategory == [_id |-> ObjectId(nextId), name |-> name[1]]
             IN /\ nextId < MaxIds
                /\ nextId' = nextId + 1
                /\ Category' = Category \cup {newCategory}
                /\ last' = Response("addCategory", req, 201, newCategory,
                                    <<"Category.save">>)
                /\ UNCHANGED <<Animal, pending>>

addCategory(name) ==
  /\ Ready
  /\ LET req == [NoReq EXCEPT !.name = name]
     IN IF ~Truthy(name)
        THEN /\ last' = Response("addCategory", req, 400,
                                 Message("Category name is required"), <<>>)
             /\ UNCHANGED <<Category, Animal, nextId, pending>>
        ELSE LET newCategory == [_id |-> ObjectId(nextId), name |-> name[1]]
             IN /\ nextId < MaxIds
                /\ nextId' = nextId + 1
                /\ Category' = Category \cup {newCategory}
                /\ last' = Response("addCategory", req, 201, newCategory,
                                    <<"Category.save">>)
                /\ UNCHANGED <<Animal, pending>>

updateCategory(categoryId, name) ==
  /\ Ready
  /\ LET req == [NoReq EXCEPT !.id = categoryId, !.name = name]
     IN IF ~isValid(categoryId)
        THEN /\ last' = Response("updateCategory", req, 400,
                                 Message("Invalid category ID format"), <<>>)
             /\ UNCHANGED <<Category, Animal, nextId, pending>>
        ELSE IF ~Truthy(name)
        THEN /\ last' = Response("updateCategory", req, 400,
                                 Message("Category name is required to update"), <<>>)
             /\ UNCHANGED <<Category, Animal, nextId, pending>>
        ELSE LET found == findById(Category, categoryId)
             IN IF found = <<>>
                THEN /\ last' = Response("updateCategory", req, 404,
                                         Message("Category not found"),
                                         <<"Category.findByIdAndUpdate">>)
                     /\ UNCHANGED <<Category, Animal, nextId, pending>>
                ELSE LET updatedCategory == [found[1] EXCEPT !.name = name[1]]
                     IN /\ Category' = (Category \ {found[1]}) \cup {updatedCategory}
                        /\ last' = Response("updateCategory", req, 200, updatedCategory,
                                            <<"Category.findByIdAndUpdate">>)
                        /\ UNCHANGED <<Animal, nextId, pending>>

(* deleteCategory cascading to the animals of the category. *)
deleteCategory_Cascade(id) ==
  /\ Ready
  /\ LET req == [NoReq EXCEPT !.id = id]
     IN IF ~isValid(id)
        THEN /\ last' = Response("deleteCategory", req, 400,
                                 Message("Invalid category ID format"), <<>>)
             /\ UNCHANGED <<Category, Animal, nextId, pending>>
        ELSE LET deletedCategory == findById(Category, id)
             IN IF deletedCategory = <<>>
                THEN /\ last' = Response("deleteCategory", req, 404,
                                         Message("Category not found"),
                                         <<"Category.findByIdAndDelete">>)
                     /\ UNCHANGED <<Category, Animal, nextId, pending>>
                ELSE /\ Category' = Category \ {deletedCategory[1]}
                     /\ Animal' = {a \in Animal : a.category # id}
                     /\ last' = Response("deleteCategory", req, 200,
                                         Message("Category deleted successfully"),
                                         <<"Category.findByIdAndDelete",
                                           "Animal.deleteMany">>)
                     /\ UNCHANGED <<nextId, pending>>

deleteCategory(id) ==
  /\ Ready
  /\ LET req == [NoReq EXCEPT !.id = id]
     IN IF ~isValid(id)
        THEN /\ last' = Response("deleteCategory", req, 400,
                                 Message("Invalid category ID format"), <<>>)
             /\ UNCHANGED <<Category, Animal, nextId, pending>>
        ELSE LET deletedCategory == findById(Category, id)
             IN IF deletedCategory = <<>>
                THEN /\ last' = Response("deleteCategory", req, 404,
                                         Message("Category not found"),
                                         <<"Category.findByIdAndDelete">>)
                     /\ UNCHANGED <<Category, Animal, nextId, pending>>
                ELSE /\ Category' = Category \ {deletedCategory[1]}
                     /\ last' = Response("deleteCategory", req, 200,
                                         Message("Category deleted successfully"),
                                         <<"Category.findByIdAndDelete">>)
                     /\ UNCHANGED <<Animal, nextId, pending>>

-----------------------------------------------------------------------------
(* Upload *)

(* multer({storage, limits: {fileSize}}).single('image'): the error it     *)
(* passes to next(), or the file it sets as req.file.                      *)
uploadAnimalImage(upload, now) ==
  IF upload = <<>>
  THEN [error |-> <<>>, file |-> <<>>]
  ELSE IF upload[1].fieldname # "image"
  THEN [error |-> <<"LIMIT_UNEXPECTED_FILE">>, file |-> <<>>]
  ELSE IF upload[1].size > fileSize
  THEN [error |-> <<"LIMIT_FILE_SIZE">>, file |-> <<>>]
  ELSE [error |-> <<>>,
        file |-> <<[filename |-> ToString(now) \o "-" \o upload[1].originalname]>>]

-----------------------------------------------------------------------------
(* Animal handlers *)

(* missingField testing `name === undefined` instead of `!name`. *)
missingField_EmptyNameAccepted(req) ==
  IF req.id = <<>> THEN <<"Missing Category Id">>
  ELSE IF req.name = <<>> THEN <<"Missing Image required fields.">>
  ELSE IF req.file = <<>> THEN <<"Missing required fields.">>
  ELSE <<>>

(* The required fields: the message of the 400 response, or none. *)
missingField(req) ==
  IF req.id = <<>> THEN <<"Missing Category Id">>
  ELSE IF ~Truthy(req.name) THEN <<"Missing Image required fields.">>
  ELSE IF req.file = <<>> THEN <<"Missing required fields.">>
  ELSE <<>>

(* validateCategory without the lookup: the path's identifier is trusted. *)
validateCategory_NoLookup(categoryId) ==
  IF ~isValid(categoryId)
  THEN [status |-> 500, category |-> <<>>, ops |-> <<>>,
        message |-> "Internal server error while adding animal."]
  ELSE [status |-> 0, category |-> <<[_id |-> categoryId, name |-> ""]>>,
        ops |-> <<>>, message |-> ""]

(* validateCategory without `if (!category)`: category._id throws a       *)
(* TypeError on null, caught by the handler.                               *)
validateCategory_NoNullCheck(categoryId) ==
  IF ~isValid(categoryId)
  THEN [status |-> 500, category |-> <<>>, ops |-> <<>>,
        message |-> "Internal server error while adding animal."]
  ELSE LET category == findById(Category, categoryId)
       IN IF category = <<>>
          THEN [status |-> 500, category |-> <<>>, ops |-> <<"Category.findById">>,
                message |-> "Internal server error while adding animal."]
          ELSE [status |-> 0, category |-> category, ops |-> <<"Category.findById">>,
                message |-> ""]

(* await Category.findById(categoryId) and the check of its result: a     *)
(* CastError on a malformed identifier (caught: 500), 404 when there is no *)
(* such category, or the category found (status 0: the handler goes on).   *)
validateCategory(categoryId) ==
  IF ~isValid(categoryId)
  THEN [status |-> 500, category |-> <<>>, ops |-> <<>>,
        message |-> "Internal server error while adding animal."]
  ELSE LET category == findById(Category, categoryId)
       IN IF category = <<>>
          THEN [status |-> 404, category |-> <<>>, ops |-> <<"Category.findById">>,
                message |-> "Category not found"]
          ELSE [status |-> 0, category |-> category, ops |-> <<"Category.findById">>,
                message |-> ""]

(* The handler up to its first await, and Category.findById at the store. *)
addAnimal(r, req) ==
  LET missing == missingField(req)
      found == validateCategory(req.id)
  IN IF missing # <<>>
     THEN /\ last' = Response("addAnimal", req, 400, Message(missing[1]), <<>>)
          /\ UNCHANGED <<Category, Animal, nextId, pending>>
     ELSE IF found.status # 0
     THEN /\ last' = Response("addAnimal", req, found.status, Message(found.message),
                              found.ops)
          /\ UNCHANGED <<Category, Animal, nextId, pending>>
     ELSE /\ pending[r] = Idle
          /\ pending' = [pending EXCEPT ![r] =
                Suspended("addAnimal", "save", req, found.category, {}, found.ops)]
          /\ last' = Response("addAnimal", req, 0, <<>>, found.ops)
          /\ UNCHANGED <<Category, Animal, nextId>>

(* new Animal({name, image, category: category._id}) and newAnimal.save() *)
addAnimal_save(r) ==
  /\ Ready
  /\ IsAt(r, "addAnimal", "save")
  /\ nextId < MaxIds
  /\ LET p == pending[r]
         newAnimal == [_id |-> ObjectId(nextId),
                       name |-> p.req.name[1],
                       image |-> "/uploads/animals/" \o p.req.file[1].filename,
                       category |-> p.category[1]._id]
     IN /\ Animal' = Animal \cup {newAnimal}
        /\ nextId' = nextId + 1
        /\ last' = Response("addAnimal", p.req, 201,
                            [message |-> "Animal added successfully.",
                             animal |-> newAnimal],
                            Append(p.ops, "Animal.save"))
  /\ pending' = [pending EXCEPT ![r] = Idle]
  /\ UNCHANGED Category

(* POST /api/animal/category/:categoryId: uploadAnimalImage, then          *)
(* addAnimal.  An error of the upload goes to Express's default error      *)
(* handler (the application registers none), which responds 500.           *)
postAnimal(r, categoryId, name, upload, now) ==
  /\ Ready
  /\ LET up == uploadAnimalImage(upload, now)
         req == [id |-> categoryId, name |-> name, upload |-> upload, file |-> up.file]
     IN IF up.error # <<>>
        THEN /\ last' = Response("uploadAnimalImage", req, 500, Message(up.error[1]), <<>>)
             /\ UNCHANGED <<Category, Animal, nextId, pending>>
        ELSE addAnimal(r, req)

(* deleteAnimal with an existence check. *)
deleteAnimal_NotFound(id) ==
  /\ Ready
  /\ LET req == [NoReq EXCEPT !.id = id]
     IN IF ~isValid(id)
        THEN /\ last' = Response("deleteAnimal", req, 500,
                                 Message("Error deleting animal"), <<>>)
             /\ UNCHANGED <<Category, Animal, nextId, pending>>
        ELSE IF findById(Animal, id) = <<>>
        THEN /\ last' = Response("deleteAnimal", req, 404,
                                 Message("Animal not found"),
                                 <<"Animal.findByIdAndDelete">>)
             /\ UNCHANGED <<Category, Animal, nextId, pending>>
        ELSE /\ Animal' = {a \in Animal : a._id # id}
             /\ last' = Response("deleteAnimal", req, 200,
                                 Message("Animal deleted successfully"),
                                 <<"Animal.findByIdAndDelete">>)
             /\ UNCHANGED <<Category, nextId, pending>>

deleteAnimal(id) ==
  /\ Ready
  /\ LET req == [NoReq EXCEPT !.id = id]
     IN IF ~isValid(id)
        THEN \* Animal.findByIdAndDelete throws a CastError, caught by the handler
             /\ last' = Response("deleteAnimal", req, 500,
                                 Message("Error deleting animal"), <<>>)
             /\ UNCHANGED <<Category, Animal, nextId, pending>>
        ELSE /\ Animal' = {a \in Animal : a._id # id}
             /\ last' = Response("deleteAnimal", req, 200,
                                 Message("Animal deleted successfully"),
                                 <<"Animal.findByIdAndDelete">>)
             /\ UNCHANGED <<Category, nextId, pending>>

(* Animal.find(), suspended before the populate query when it found any. *)
getAnimals(r) ==
  /\ Ready
  /\ LET animals == Animal
     IN IF animals = {}
        THEN /\ last' = Response("getAnimals", NoReq, 200, {}, <<"Animal.find">>)
             /\ UNCHANGED <<Category, Animal, nextId, pending>>
        ELSE /\ pending[r] = Idle
             /\ pending' = [pending EXCEPT ![r] =
                   Suspended("getAnimals", "populate", NoReq, <<>>, animals,
                             <<"Animal.find">>)]
             /\ last' = Response("getAnimals", NoReq, 0, <<>>, <<"Animal.find">>)
             /\ UNCHANGED <<Category, Animal, nextId>>

getAnimals_populate(r) ==
  /\ Ready
  /\ IsAt(r, "getAnimals", "populate")
  /\ LET p == pending[r]
     IN last' = Response("getAnimals", p.req, 200, populate(p.animals),
                         Append(p.ops, "Category.find"))
  /\ pending' = [pending EXCEPT ![r] = Idle]
  /\ UNCHANGED <<Category, Animal, nextId>>

getAnimalsByCategoryId(r, categoryId) ==
  /\ Ready
  /\ LET req == [NoReq EXCEPT !.id = categoryId]
     IN IF ~isValid(categoryId)
        THEN \* Animal.find({category}) throws a CastError, caught by the handler
             /\ last' = Response("getAnimalsByCategoryId", req, 500,
                                 Message("Error fetching animals by category ID"), <<>>)
             /\ UNCHANGED <<Category, Animal, nextId, pending>>
        ELSE LET animals == findByCategory(categoryId)
             IN IF animals = {}
                THEN /\ last' = Response("getAnimalsByCategoryId", req, 404,
                                         Message("No animals found in this category"),
                                         <<"Animal.find">>)
                     /\ UNCHANGED <<Category, Animal, nextId, pending>>
                ELSE /\ pending[r] = Idle
                     /\ pending' = [pending EXCEPT ![r] =
                           Suspended("getAnimalsByCategoryId", "populate", req, <<>>,
                                     animals, <<"Animal.find">>)]
                     /\ last' = Response("getAnimalsByCategoryId", req, 0, <<>>,
                                         <<"Animal.find">>)
                     /\ UNCHANGED <<Category, Animal, nextId>>

getAnimalsByCategoryId_populate(r) ==
  /\ Ready
  /\ IsAt(r, "getAnimalsByCategoryId", "populate")
  /\ LET p == pending[r]
     IN last' = Response("getAnimalsByCategoryId", p.req, 200, populate(p.animals),
                         Append(p.ops, "Category.find"))
  /\ pending' = [pending EXCEPT ![r] = Idle]
  /\ UNCHANGED <<Category, Animal, nextId>>

(* Category.findOne({name: categoryName}): any category of that name. *)
getAnimalsByCategoryName(r, categoryName) ==
  /\ Ready
  /\ LET req == [NoReq EXCEPT !.name = <<categoryName>>]
         named == {c \in Category : c.name = categoryName}
     IN IF named = {}
        THEN /\ last' = Response("getAnimalsByCategoryName", req, 404,
                                 Message("Category not found"), <<"Category.findOne">>)
             /\ UNCHANGED <<Category, Animal, nextId, pending>>
        ELSE \E category \in named :
               /\ pending[r] = Idle
               /\ pending' = [pending EXCEPT ![r] =
                     Suspended("getAnimalsByCategoryName", "find", req, <<category>>,
                               {}, <<"Category.findOne">>)]
               /\ last' = Response("getAnimalsByCategoryName", req, 0, <<>>,
                                   <<"Category.findOne">>)
               /\ UNCHANGED <<Category, Animal, nextId>>

getAnimalsByCategoryName_find(r) ==
  /\ Ready
  /\ IsAt(r, "getAnimalsByCategoryName", "find")
  /\ LET p == pending[r]
         animals == findByCategory(p.category[1]._id)
         ops == Append(p.ops, "Animal.find")
     IN IF animals = {}
        THEN /\ last' = Response("getAnimalsByCategoryName", p.req, 404,
                                 Message("No animals found in this category"), ops)
             /\ pending' = [pending EXCEPT ![r] = Idle]
        ELSE /\ last' = Response("getAnimalsByCategoryName", p.req, 0, <<>>, ops)
             /\ pending' = [pending EXCEPT ![r] =
                   Suspended("getAnimalsByCategoryName", "populate", p.req, p.category,
                             animals, ops)]
  /\ UNCHANGED <<Category, Animal, nextId>>

getAnimalsByCategoryName_populate(r) ==
  /\ Ready
  /\ IsAt(r, "getAnimalsByCategoryName", "populate")
  /\ LET p == pending[r]
     IN last' = Response("getAnimalsByCategoryName", p.req, 200, populate(p.animals),
                         Append(p.ops, "Category.find"))
  /\ pending' = [pending EXCEPT ![r] = Idle]
  /\ UNCHANGED <<Category, Animal, nextId>>

-----------------------------------------------------------------------------
(* Get a category by ID and its animals *)

getCategoryById(r, categoryId) ==
  /\ Ready
  /\ LET req == [NoReq EXCEPT !.id = categoryId]
     IN IF ~isValid(categoryId)
        THEN /\ last' = Response("getCategoryById", req, 400,
                                 Message("Invalid category ID format"), <<>>)
             /\ UNCHANGED <<Category, Animal, nextId, pending>>
        ELSE LET category == findById(Category, categoryId)
             IN IF category = <<>>
                THEN /\ last' = Response("getCategoryById", req, 404,
                                         Message("Category not found"),
                                         <<"Category.findById">>)
                     /\ UNCHANGED <<Category, Animal, nextId, pending>>
                ELSE /\ pending[r] = Idle
                     /\ pending' = [pending EXCEPT ![r] =
                           Suspended("getCategoryById", "find", req, category, {},
                                     <<"Category.findById">>)]
                     /\ last' = Response("getCategoryById", req, 0, <<>>,
                                         <<"Category.findById">>)
                     /\ UNCHANGED <<Category, Animal, nextId>>

getCategoryById_find(r) ==
  /\ Ready
  /\ IsAt(r, "getCategoryById", "find")
  /\ LET p == pending[r]
         animals == findByCategory(p.req.id)
         ops == Append(p.ops, "Animal.find")
     IN IF animals = {}
        THEN /\ last' = Response("getCategoryById", p.req, 200,
                                 [category |-> p.category[1], animals |-> {}], ops)
             /\ pending' = [pending EXCEPT ![r] = Idle]
        ELSE /\ last' = Response("getCategoryById", p.req, 0, <<>>, ops)
             /\ pending' = [pending EXCEPT ![r] =
                   Suspended("getCategoryById", "populate", p.req, p.category,
                             animals, ops)]
  /\ UNCHANGED <<Category, Animal, nextId>>

getCategoryById_populate(r) ==
  /\ Ready
  /\ IsAt(r, "getCategoryById", "populate")
  /\ LET p == pending[r]
     IN last' = Response("getCategoryById", p.req, 200,
                         [category |-> p.category[1], animals |-> populate(p.animals)],
                         Append(p.ops, "Category.find"))
  /\ pending' = [pending EXCEPT ![r] = Idle]
  /\ UNCHANGED <<Category, Animal, nextId>>

-----------------------------------------------------------------------------
(* The exchange of the latest step has been observed. *)
Observe ==
  /\ last # NoExchange
  /\ last' = NoExchange
  /\ UNCHANGED <<Category, Animal, nextId, pending>>

Next ==
  \/ getCategories
  \/ \E name \in NameInputs : addCategory(name)
  \/ \E id \in PathIds, name \in NameInputs : updateCategory(id, name)
  \/ \E id \in PathIds : deleteCategory(id)
  \/ \E r \in Requests, id \in PathIds \cup {<<>>}, name \in AnimalNameInputs,
        upload \in Uploads, now \in Times : postAnimal(r, id, name, upload, now)
  \/ \E r \in Requests : addAnimal_save(r)
  \/ \E id \in PathIds : deleteAnimal(id)
  \/ \E r \in Requests : getAnimals(r)
  \/ \E r \in Requests : getAnimals_populate(r)
  \/ \E r \in Requests, id \in PathIds : getAnimalsByCategoryId(r, id)
  \/ \E r \in Requests : getAnimalsByCategoryId_populate(r)
  \/ \E r \in Requests, n \in CategoryNames : getAnimalsByCategoryName(r, n)
  \/ \E r \in Requests : getAnimalsByCategoryName_find(r)
  \/ \E r \in Requests : getAnimalsByCategoryName_populate(r)
  \/ \E r \in Requests, id \in PathIds : getCategoryById(r, id)
  \/ \E r \in Requests : getCategoryById_find(r)
  \/ \E r \in Requests : getCategoryById_populate(r)
  \/ Observe

Spec == Init /\ [][Next]_vars

-----------------------------------------------------------------------------
(* Properties *)

HasId(coll, id) == \E d \in coll : d._id = id

StoreUnchanged == Category' = Category /\ Animal' = Animal

IdHandlers ==
  {"getCategoryById", "updateCategory", "deleteCategory", "addAnimal",
   "deleteAnimal", "getAnimalsByCategoryId"}

(* C1: every handler that takes an identifier in the path answers a        *)
(* malformed identifier with 400, issues no store operation and leaves the *)
(* store unchanged.                                                        *)
C1_MalformedIdRejected ==
  [][(/\ last'.handler \in IdHandlers
      /\ last'.req.id # <<>>
      /\ ~isValid(last'.req.id))
       => (last'.status = 400 /\ last'.ops = <<>> /\ StoreUnchanged)]_vars

(* C2 as stated: whenever addAnimal persists an animal, the category it    *)
(* references is in the store at that moment.                              *)
C2_CategoryPresentAtSave ==
  (last.handler = "addAnimal" /\ last.status = 201)
    => HasId(Category, last.body.animal.category)

(* C2 amended: the category an animal is persisted with is the one         *)
(* addAnimal's lookup found in the store, at the time of the lookup.       *)
C2_CategoryFoundAtLookup ==
  [][/\ (last'.handler = "addAnimal" /\ last'.status = 0)
          => \E r \in Requests :
               /\ pending[r] = Idle
               /\ pending'[r] # Idle
               /\ pending'[r].handler = "addAnimal"
               /\ pending'[r].category # <<>>
               /\ pending'[r].category[1] \in Category
               /\ pending'[r].category[1]._id = last'.req.id
     /\ (last'.handler = "addAnimal" /\ last'.status = 201)
          => \E r \in Requests :
               /\ IsAt(r, "addAnimal", "save")
               /\ pending'[r] = Idle
               /\ last'.body.animal.category = pending[r].category[1]._id
               /\ Animal' = Animal \cup {last'.body.animal}
               /\ last'.body.animal \notin Animal]_vars

(* An animal persisted although its category was deleted after the lookup. *)
C2_Witness ==
  /\ last.handler = "addAnimal"
  /\ last.status = 201
  /\ last.body.animal \in Animal
  /\ ~HasId(Category, last.body.animal.category)

(* C3: addAnimal with a missing categoryId, a missing or empty name, or no *)
(* uploaded image answers 400 and persists nothing.                        *)
C3_MissingFieldRejected ==
  [][(/\ last'.handler = "addAnimal"
      /\ \/ last'.req.id = <<>>
         \/ last'.req.name = <<>>
         \/ last'.req.name = <<"">>
         \/ last'.req.file = <<>>)
       => (last'.status = 400 /\ StoreUnchanged /\ pending' = pending)]_vars

(* A 400 for the missing image, the last of the three checks, with a       *)
(* category in the store that the request names.                           *)
C3_Witness ==
  /\ last.handler = "addAnimal"
  /\ last.status = 400
  /\ last.req.file = <<>>
  /\ Truthy(last.req.name)
  /\ HasId(Category, last.req.id)

(* C4 as stated: addAnimal, name and image present, for any categoryId     *)
(* that resolves to no category, answers 404 and persists nothing.         *)
C4_UnknownCategoryNotFound ==
  [][(/\ last'.handler = "addAnimal"
      /\ last'.status # 201
      /\ Truthy(last'.req.name)
      /\ last'.req.file # <<>>
      /\ last'.req.id # <<>>
      /\ ~HasId(Category, last'.req.id))
       => (last'.status = 404 /\ StoreUnchanged /\ pending' = pending)]_vars

(* C4 amended: the same for any well-formed categoryId. *)
C4_WellFormedUnknownCategoryNotFound ==
  [][(/\ last'.handler = "addAnimal"
      /\ last'.status # 201
      /\ Truthy(last'.req.name)
      /\ last'.req.file # <<>>
      /\ isValid(last'.req.id)
      /\ ~HasId(Category, last'.req.id))
       => (last'.status = 404 /\ StoreUnchanged /\ pending' = pending)]_vars

(* A 404 for a well-formed identifier of a category that was deleted. *)
C4_Witness ==
  /\ last.handler = "addAnimal"
  /\ last.status = 404
  /\ isValid(last.req.id)
  /\ \E n \in 0..(nextId - 1) : last.req.id = ObjectId(n)

(* C5: a successful deleteCategory removes the targeted category alone and *)
(* leaves every animal as it was.                                          *)
C5_DeleteCategoryNoCascade ==
  [][(last'.handler = "deleteCategory" /\ last'.status = 200)
       => /\ HasId(Category, last'.req.id)
          /\ Category' = {c \in Category : c._id # last'.req.id}
          /\ Animal' = Animal]_vars

(* A category deleted while an animal references it and another category  *)
(* remains.                                                                *)
C5_Witness ==
  /\ last.handler = "deleteCategory"
  /\ last.status = 200
  /\ \E a \in Animal : a.category = last.req.id
  /\ Category # {}

(* C6: an upload of more than 5 MiB is answered 400 by the upload step,    *)
(* before addAnimal runs.                                                  *)
C6_OversizedUploadRejected400 ==
  (/\ last.handler \in {"uploadAnimalImage", "addAnimal"}
   /\ last.req.upload # <<>>
   /\ last.req.upload[1].size > fileSize)
    => (last.handler = "uploadAnimalImage" /\ last.status = 400)

(* C7: addCategory answers 400 and persists nothing for a missing or empty *)
(* name, and otherwise answers 201 and adds exactly one category of that   *)
(* name under a fresh identifier.                                          *)
C7_AddCategory ==
  [][(last'.handler = "addCategory")
       => IF last'.req.name = <<>> \/ last'.req.name = <<"">>
          THEN last'.status = 400 /\ StoreUnchanged
          ELSE /\ last'.status = 201
               /\ Animal' = Animal
               /\ \E c \in Category' :
                    /\ c \notin Category
                    /\ Category' = Category \cup {c}
                    /\ c.name = last'.req.name[1]
                    /\ last'.body = c
                    /\ isValid(c._id)
                    /\ ~HasId(Category \cup Animal, c._id)
                    /\ \A n \in 0..(nextId - 1) : c._id # ObjectId(n)]_vars

(* A second category created beside an existing one. *)
C7_Witness ==
  /\ last.handler = "addCategory"
  /\ last.status = 201
  /\ last.body \in Category
  /\ Cardinality(Category) >= 2

(* b is the animal a as the populate query resolved it. *)
Resolved(a, b) ==
  /\ b._id = a._id
  /\ b.name = a.name
  /\ b.image = a.image
  /\ Len(b.category) <= 1
  /\ IF HasId(Category, a.category)
     THEN /\ b.category # <<>>
          /\ b.category[1] \in Category
          /\ b.category[1]._id = a.category
     ELSE b.category = <<>>

(* C8 as stated: the listing by category id answers 404 or 200, and a 200  *)
(* carries animals whose category is resolved to the full category object  *)
(* of the given id.                                                        *)
C8_ListingResolvesCategory ==
  (/\ last.handler = "getAnimalsByCategoryId"
   /\ isValid(last.req.id)
   /\ last.status # 0)
    => \/ last.status = 404
       \/ /\ last.status = 200
          /\ last.body # {}
          /\ \A b \in last.body :
               /\ Len(b.category) = 1
               /\ b.category[1]._id = last.req.id

(* C8 amended: for a well-formed id the listing answers 404 when its find  *)
(* matches no animal; otherwise it answers 200 with exactly the animals    *)
(* the find matched, each with its category resolved by the populate query *)
(* to the category document, or to null when that category is deleted.     *)
C8_ListingByCategoryId ==
  [][(last'.handler = "getAnimalsByCategoryId" /\ isValid(last'.req.id))
       => LET id == last'.req.id
              matching == {a \in Animal : a.category = id}
          IN /\ StoreUnchanged
             /\ last'.status \in {0, 200, 404}
             /\ last'.status = 404 => (matching = {} /\ pending' = pending)
             /\ last'.status = 0
                  => /\ matching # {}
                     /\ \E r \in Requests :
                          /\ pending[r] = Idle
                          /\ pending'[r] # Idle
                          /\ pending'[r].animals = matching
                          /\ pending'[r].req.id = id
             /\ last'.status = 200
                  => \E r \in Requests :
                       /\ IsAt(r, "getAnimalsByCategoryId", "populate")
                       /\ pending[r].req.id = id
                       /\ pending'[r] = Idle
                       /\ \A a \in pending[r].animals :
                            \E b \in last'.body : Resolved(a, b)
                       /\ \A b \in last'.body :
                            \E a \in pending[r].animals : Resolved(a, b)]_vars

(* The round trip: one category, one animal created in it, and the listing *)
(* of that category returning that animal with the category in full.       *)
C8_Witness ==
  /\ nextId = 2
  /\ Cardinality(Category) = 1
  /\ Cardinality(Animal) = 1
  /\ last.handler = "getAnimalsByCategoryId"
  /\ last.status = 200
  /\ \E c \in Category :
       /\ c.name = "Reptiles"
       /\ last.req.id = c._id
       /\ \E a \in Animal :
            last.body = {[a EXCEPT !.category = <<c>>]} /\ a.name = "Iguana"

(* C9: getCategories answers 404 exactly when the store holds no category, *)
(* and otherwise 200 with all the categories; never 200 with an empty list.*)
C9_GetCategories ==
  (last.handler = "getCategories")
    => /\ last.status \in {200, 404}
       /\ last.status = 404 <=> Category = {}
       /\ last.status = 200 => (last.body = Category /\ last.body # {})

(* A 404 after every category that was created has been deleted. *)
C9_Witness ==
  /\ last.handler = "getCategories"
  /\ last.status = 404
  /\ nextId > 0

(* C10 as stated: deleteAnimal answers 200 with the confirmation whether   *)
(* or not an animal has the id, and removes that animal alone.             *)
C10_DeleteAnimalSilent ==
  [][(last'.handler = "deleteAnimal")
       => /\ last'.status = 200
          /\ last'.body = Message("Animal deleted successfully")
          /\ Category' = Category
          /\ Animal' = {a \in Animal : a._id # last'.req.id}]_vars

(* C10 amended: the same for a well-formed id; the store is unchanged when *)
(* no animal has the id, and after the step no animal has it, so a second  *)
(* deleteAnimal of the id changes nothing.                                 *)
C10_DeleteAnimalWellFormed ==
  [][(last'.handler = "deleteAnimal" /\ isValid(last'.req.id))
       => /\ last'.status = 200
          /\ last'.body = Message("Animal deleted successfully")
          /\ Category' = Category
          /\ Animal' = {a \in Animal : a._id # last'.req.id}
          /\ ~HasId(Animal, last'.req.id) => Animal' = Animal
          /\ ~HasId(Animal', last'.req.id)
          /\ {a \in Animal' : a._id # last'.req.id} = Animal']_vars

(* deleteAnimal of an id that was never generated, with animals and        *)
(* categories in the store.                                                *)
C10_Witness ==
  /\ last.handler = "deleteAnimal"
  /\ last.status = 200
  /\ last.req.id = ObjectId(MaxIds)
  /\ Animal # {}
  /\ Category # {}

=============================================================================
